---- MODULE Spec2Model ----
(***************************************************************************)
(* A model of EntropyVisualizer.py: main's block-splitting and per-block   *)
(* entropy / colour pipeline, and create_image's grid layout and drawing.  *)
(*                                                                         *)
(* Python floats are IEEE-754 binary64.  They are modelled exactly: a      *)
(* float is a sign, a 53-bit integer significand and a binary exponent,    *)
(* and every arithmetic operation rounds to nearest, ties to even.  The    *)
(* significand does not fit TLC's integers, so it is kept as a sequence of *)
(* limbs (least significant first).  No value of the program comes near    *)
(* the subnormal or overflow range, so neither is modelled.                *)
(***************************************************************************)
EXTENDS Integers, Sequences, FiniteSets

(***************************************************************************)
(* Natural numbers of any size, as limb sequences in base 2^14.            *)
(***************************************************************************)
LimbBits == 14
LimbBase == 2^LimbBits

Limb(a, i) == IF i <= Len(a) THEN a[i] ELSE 0

RECURSIVE BNorm(_)
BNorm(a) ==
    IF a = <<>> THEN a
    ELSE IF a[Len(a)] = 0 THEN BNorm(SubSeq(a, 1, Len(a) - 1))
    ELSE a

RECURSIVE BFromNat(_)
BFromNat(n) == IF n = 0 THEN <<>> ELSE <<n % LimbBase>> \o BFromNat(n \div LimbBase)

RECURSIVE BToNat(_)
BToNat(a) == IF a = <<>> THEN 0 ELSE a[1] + LimbBase * BToNat(Tail(a))

RECURSIVE BAddFrom(_, _, _, _)
BAddFrom(a, b, i, c) ==
    IF i > Len(a) /\ i > Len(b) THEN (IF c = 0 THEN <<>> ELSE <<c>>)
    ELSE LET s == Limb(a, i) + Limb(b, i) + c
         IN  <<s % LimbBase>> \o BAddFrom(a, b, i + 1, s \div LimbBase)

BAdd(a, b) == BAddFrom(a, b, 1, 0)

RECURSIVE BSubFrom(_, _, _, _)
BSubFrom(a, b, i, brw) ==
    IF i > Len(a) THEN <<>>
    ELSE LET d == a[i] - Limb(b, i) - brw
         IN  <<d % LimbBase>> \o BSubFrom(a, b, i + 1, IF d < 0 THEN 1 ELSE 0)

\* a - b, for a >= b
BSub(a, b) == BNorm(BSubFrom(a, b, 1, 0))

RECURSIVE BCmpAt(_, _, _)
BCmpAt(a, b, i) ==
    IF i = 0 THEN 0
    ELSE IF a[i] > b[i] THEN 1
    ELSE IF a[i] < b[i] THEN -1
    ELSE BCmpAt(a, b, i - 1)

\* -1, 0 or 1 as a < b, a = b or a > b
BCmp(a, b) ==
    IF Len(a) > Len(b) THEN 1
    ELSE IF Len(a) < Len(b) THEN -1
    ELSE BCmpAt(a, b, Len(a))

RECURSIVE BMulSmallFrom(_, _, _, _)
BMulSmallFrom(a, k, i, c) ==
    IF i > Len(a) THEN BFromNat(c)
    ELSE LET s == a[i] * k + c
         IN  <<s % LimbBase>> \o BMulSmallFrom(a, k, i + 1, s \div LimbBase)

\* a * k, for 0 <= k <= 2^16
BMulSmall(a, k) == IF k = 0 THEN <<>> ELSE BMulSmallFrom(a, k, 1, 0)

RECURSIVE BMulFrom(_, _, _)
BMulFrom(a, b, j) ==
    IF j > Len(b) THEN <<>>
    ELSE BAdd(BMulSmall(a, b[j]), <<0>> \o BMulFrom(a, b, j + 1))

BMul(a, b) == BNorm(BMulFrom(a, b, 1))

RECURSIVE BDivSmallFrom(_, _, _, _)
BDivSmallFrom(a, k, i, r) ==
    IF i = 0 THEN <<>>
    ELSE LET t == r * LimbBase + a[i]
         IN  BDivSmallFrom(a, k, i - 1, t % k) \o <<t \div k>>

\* floor(a / k), for 1 <= k <= 2^16
BDivSmall(a, k) == BNorm(BDivSmallFrom(a, k, Len(a), 0))

Zeros(k) == [i \in 1..k |-> 0]

\* a * 2^bits
BShl(a, bits) ==
    IF a = <<>> THEN <<>>
    ELSE Zeros(bits \div LimbBits) \o BMulSmall(a, 2^(bits % LimbBits))

\* floor(a / 2^bits)
BShr(a, bits) ==
    IF bits \div LimbBits >= Len(a) THEN <<>>
    ELSE BDivSmall(SubSeq(a, bits \div LimbBits + 1, Len(a)), 2^(bits % LimbBits))

RECURSIVE BitLenNat(_)
BitLenNat(n) == IF n = 0 THEN 0 ELSE 1 + BitLenNat(n \div 2)

BBitLen(a) == IF a = <<>> THEN 0 ELSE LimbBits * (Len(a) - 1) + BitLenNat(a[Len(a)])

\* bit i of a (bit 0 is the least significant)
BBit(a, i) == (Limb(a, i \div LimbBits + 1) \div 2^(i % LimbBits)) % 2

\* the k lowest bits of a are all zero
BLowZero(a, k) ==
    /\ \A i \in 1..(k \div LimbBits) : Limb(a, i) = 0
    /\ Limb(a, k \div LimbBits + 1) % 2^(k % LimbBits) = 0

\* the largest d in lo..hi-1 with d * b <= r, given lo * b <= r < hi * b
RECURSIVE BDigit(_, _, _, _)
BDigit(r, b, lo, hi) ==
    IF hi - lo <= 1 THEN lo
    ELSE LET mid == (lo + hi) \div 2
         IN  IF BCmp(BMulSmall(b, mid), r) <= 0
             THEN BDigit(r, b, mid, hi)
             ELSE BDigit(r, b, lo, mid)

\* <<floor(a / b), a mod b>>, for b > 0: long division, one limb per level
RECURSIVE BDivMod(_, _)
BDivMod(a, b) ==
    IF BCmp(a, b) < 0 THEN <<(<<>>), a>>
    ELSE LET h == BDivMod(a, <<0>> \o b)
             d == BDigit(h[2], b, 0, LimbBase)
         IN  <<BNorm(<<d>> \o h[1]), BSub(h[2], BMulSmall(b, d))>>

(***************************************************************************)
(* IEEE-754 binary64 values: (-1)^neg * man * 2^exp, where man is zero     *)
(* (the empty limb sequence) or has exactly MantBits bits.  The sign of a  *)
(* zero is not kept: the program never divides by a computed zero nor      *)
(* inspects a zero's sign.                                                 *)
(***************************************************************************)
MantBits == 53

FZero == [neg |-> FALSE, man |-> <<>>, exp |-> 0]

IsZero(x) == x.man = <<>>

\* m * 2^e rounded to nearest, ties to even
FRound(neg, m, e) ==
    IF m = <<>> THEN FZero
    ELSE LET L == BBitLen(m)
         IN  IF L <= MantBits
             THEN [neg |-> neg, man |-> BShl(m, MantBits - L), exp |-> e - (MantBits - L)]
             ELSE LET k  == L - MantBits
                      q  == BShr(m, k)
                      up == BBit(m, k - 1) = 1 /\ (~BLowZero(m, k - 1) \/ BBit(q, 0) = 1)
                      q1 == IF up THEN BAdd(q, <<1>>) ELSE q
                  IN  IF BBitLen(q1) > MantBits
                      THEN [neg |-> neg, man |-> BShr(q1, 1), exp |-> e + k + 1]
                      ELSE [neg |-> neg, man |-> q1, exp |-> e + k]

\* float(n) for an integer n
FromInt(n) == FRound(n < 0, BFromNat(IF n < 0 THEN -n ELSE n), 0)

FNeg(x) == IF IsZero(x) THEN x ELSE [x EXCEPT !.neg = ~x.neg]

FAdd(x, y) ==
    IF IsZero(x) THEN y
    ELSE IF IsZero(y) THEN x
    ELSE LET e == IF x.exp < y.exp THEN x.exp ELSE y.exp
             a == BShl(x.man, x.exp - e)
             b == BShl(y.man, y.exp - e)
             c == BCmp(a, b)
         IN  IF x.neg = y.neg THEN FRound(x.neg, BAdd(a, b), e)
             ELSE IF c = 0 THEN FZero
             ELSE IF c > 0 THEN FRound(x.neg, BSub(a, b), e)
             ELSE FRound(y.neg, BSub(b, a), e)

FSub(x, y) == FAdd(x, FNeg(y))

FMul(x, y) ==
    IF IsZero(x) \/ IsZero(y) THEN FZero
    ELSE FRound(x.neg # y.neg, BMul(x.man, y.man), x.exp + y.exp)

\* x / y for y # 0: 57 quotient bits and a sticky bit, then rounded
FDiv(x, y) ==
    IF IsZero(x) THEN FZero
    ELSE LET h == BDivMod(BShl(x.man, 56), y.man)
             s == IF h[2] = <<>> THEN 0 ELSE 1
         IN  FRound(x.neg # y.neg, BAdd(BMulSmall(h[1], 2), BFromNat(s)),
                    x.exp - y.exp - 57)

FSign(x) == IF IsZero(x) THEN 0 ELSE IF x.neg THEN -1 ELSE 1

\* -1, 0 or 1 as x < y, x = y or x > y
FCmp(x, y) ==
    IF FSign(x) # FSign(y) THEN (IF FSign(x) > FSign(y) THEN 1 ELSE -1)
    ELSE IF IsZero(x) THEN 0
    ELSE FSign(x) * (IF x.exp > y.exp THEN 1
                     ELSE IF x.exp < y.exp THEN -1
                     ELSE BCmp(x.man, y.man))

FLe(x, y) == FCmp(x, y) <= 0
FLt(x, y) == FCmp(x, y) < 0

\* int(x): truncation toward zero
FTrunc(x) ==
    IF IsZero(x) THEN 0
    ELSE LET m == IF x.exp >= 0 THEN BToNat(BShl(x.man, x.exp))
                  ELSE BToNat(BShr(x.man, -x.exp))
         IN  IF x.neg THEN -m ELSE m

\* math.ceil(x)
FCeil(x) ==
    LET t == FTrunc(x)
    IN  IF ~x.neg /\ x # FromInt(t) THEN t + 1 ELSE t

(***************************************************************************)
(* math.log2.  The logarithm of a power of two is its exponent, exactly.   *)
(* For the other arguments the program can pass within the model's bounds  *)
(* (float(n), and the quotient count / n, for 1 <= count <= n <= 16) the   *)
(* binary64 result is tabulated: each y is the float nearest to log2(x).   *)
(***************************************************************************)
Log2Table ==
    {[x |-> [neg |-> FALSE, man |-> <<4369, 1092, 4369, 1092>>, exp |-> -56],   \* log2(1/15)
      y |-> [neg |-> TRUE, man |-> <<550, 11558, 5373, 2000>>, exp |-> -51]],
     [x |-> [neg |-> FALSE, man |-> <<9362, 2340, 4681, 1170>>, exp |-> -56],   \* log2(1/14)
      y |-> [neg |-> TRUE, man |-> <<1069, 15696, 5991, 1949>>, exp |-> -51]],
     [x |-> [neg |-> FALSE, man |-> <<15124, 3780, 5041, 1260>>, exp |-> -56],   \* log2(1/13)
      y |-> [neg |-> TRUE, man |-> <<8755, 3655, 10242, 1894>>, exp |-> -51]],
     [x |-> [neg |-> FALSE, man |-> <<5461, 5461, 5461, 1365>>, exp |-> -56],   \* log2(1/12)
      y |-> [neg |-> TRUE, man |-> <<7860, 1855, 8205, 1835>>, exp |-> -51]],
     [x |-> [neg |-> FALSE, man |-> <<5958, 4468, 7447, 1489>>, exp |-> -56],   \* log2(1/11)
      y |-> [neg |-> TRUE, man |-> <<7490, 12313, 3751, 1771>>, exp |-> -51]],
     [x |-> [neg |-> FALSE, man |-> <<6554, 9830, 6553, 1638>>, exp |-> -56],   \* log2(1/10)
      y |-> [neg |-> TRUE, man |-> <<9073, 9702, 13552, 1700>>, exp |-> -51]],
     [x |-> [neg |-> FALSE, man |-> <<1820, 12743, 7281, 1820>>, exp |-> -56],   \* log2(1/9)
      y |-> [neg |-> TRUE, man |-> <<15721, 3710, 26, 1623>>, exp |-> -51]],
     [x |-> [neg |-> FALSE, man |-> <<4369, 1092, 4369, 1092>>, exp |-> -55],   \* log2(2/15)
      y |-> [neg |-> TRUE, man |-> <<550, 11558, 5373, 1488>>, exp |-> -51]],
     [x |-> [neg |-> FALSE, man |-> <<9362, 2340, 4681, 1170>>, exp |-> -55],   \* log2(1/7)
      y |-> [neg |-> TRUE, man |-> <<1069, 15696, 5991, 1437>>, exp |-> -51]],
     [x |-> [neg |-> FALSE, man |-> <<15124, 3780, 5041, 1260>>, exp |-> -55],   \* log2(2/13)
      y |-> [neg |-> TRUE, man |-> <<8755, 3655, 10242, 1382>>, exp |-> -51]],
     [x |-> [neg |-> FALSE, man |-> <<5461, 5461, 5461, 1365>>, exp |-> -55],   \* log2(1/6)
      y |-> [neg |-> TRUE, man |-> <<7860, 1855, 8205, 1323>>, exp |-> -51]],
     [x |-> [neg |-> FALSE, man |-> <<5958, 4468, 7447, 1489>>, exp |-> -55],   \* log2(2/11)
      y |-> [neg |-> TRUE, man |-> <<7490, 12313, 3751, 1259>>, exp |-> -51]],
     [x |-> [neg |-> FALSE, man |-> <<0, 0, 0, 1536>>, exp |-> -55],   \* log2(3/16)
      y |-> [neg |-> TRUE, man |-> <<8524, 14528, 8178, 1236>>, exp |-> -51]],
     [x |-> [neg |-> FALSE, man |-> <<6554, 9830, 6553, 1638>>, exp |-> -55],   \* log2(1/5)
      y |-> [neg |-> TRUE, man |-> <<9073, 9702, 13552, 1188>>, exp |-> -51]],
     [x |-> [neg |-> FALSE, man |-> <<14043, 11702, 7021, 1755>>, exp |-> -55],   \* log2(3/14)
      y |-> [neg |-> TRUE, man |-> <<9593, 13840, 14170, 1137>>, exp |-> -51]],
     [x |-> [neg |-> FALSE, man |-> <<1820, 12743, 7281, 1820>>, exp |-> -55],   \* log2(2/9)
      y |-> [neg |-> TRUE, man |-> <<15721, 3710, 26, 1111>>, exp |-> -51]],
     [x |-> [neg |-> FALSE, man |-> <<6302, 13863, 7561, 1890>>, exp |-> -55],   \* log2(3/13)
      y |-> [neg |-> TRUE, man |-> <<895, 1800, 2037, 1083>>, exp |-> -51]],
     [x |-> [neg |-> FALSE, man |-> <<4369, 1092, 4369, 1092>>, exp |-> -54],   \* log2(4/15)
      y |-> [neg |-> TRUE, man |-> <<1099, 6732, 10747, 1952>>, exp |-> -52]],
     [x |-> [neg |-> FALSE, man |-> <<4468, 7447, 1489, 1117>>, exp |-> -54],   \* log2(3/11)
      y |-> [neg |-> TRUE, man |-> <<15644, 4531, 7477, 1919>>, exp |-> -52]],
     [x |-> [neg |-> FALSE, man |-> <<9362, 2340, 4681, 1170>>, exp |-> -54],   \* log2(2/7)
      y |-> [neg |-> TRUE, man |-> <<2138, 15008, 11983, 1850>>, exp |-> -52]],
     [x |-> [neg |-> FALSE, man |-> <<13107, 3276, 13107, 1228>>, exp |-> -54],   \* log2(3/10)
      y |-> [neg |-> TRUE, man |-> <<2427, 15694, 10694, 1778>>, exp |-> -52]],
     [x |-> [neg |-> FALSE, man |-> <<15124, 3780, 5041, 1260>>, exp |-> -54],   \* log2(4/13)
      y |-> [neg |-> TRUE, man |-> <<1126, 7311, 4100, 1741>>, exp |-> -52]],
     [x |-> [neg |-> FALSE, man |-> <<0, 0, 0, 1280>>, exp |-> -54],   \* log2(5/16)
      y |-> [neg |-> TRUE, man |-> <<14621, 13362, 5662, 1718>>, exp |-> -52]],
     [x |-> [neg |-> FALSE, man |-> <<5461, 5461, 5461, 1365>>, exp |-> -54],   \* log2(1/3)
      y |-> [neg |-> TRUE, man |-> <<15721, 3710, 26, 1623>>, exp |-> -52]],
     [x |-> [neg |-> FALSE, man |-> <<11703, 7021, 14043, 1462>>, exp |-> -54],   \* log2(5/14)
      y |-> [neg |-> TRUE, man |-> <<375, 11987, 1262, 1521>>, exp |-> -52]],
     [x |-> [neg |-> FALSE, man |-> <<5958, 4468, 7447, 1489>>, exp |-> -54],   \* log2(4/11)
      y |-> [neg |-> TRUE, man |-> <<14980, 8242, 7503, 1494>>, exp |-> -52]],
     [x |-> [neg |-> FALSE, man |-> <<0, 0, 0, 1536>>, exp |-> -54],   \* log2(3/8)
      y |-> [neg |-> TRUE, man |-> <<664, 12673, 16357, 1448>>, exp |-> -52]],
     [x |-> [neg |-> FALSE, man |-> <<2521, 8822, 6301, 1575>>, exp |-> -54],   \* log2(5/13)
      y |-> [neg |-> TRUE, man |-> <<15747, 4289, 9763, 1411>>, exp |-> -52]],
     [x |-> [neg |-> FALSE, man |-> <<6554, 9830, 6553, 1638>>, exp |-> -54],   \* log2(2/5)
      y |-> [neg |-> TRUE, man |-> <<1762, 3021, 10721, 1353>>, exp |-> -52]],
     [x |-> [neg |-> FALSE, man |-> <<10923, 10922, 10922, 1706>>, exp |-> -54],   \* log2(5/12)
      y |-> [neg |-> TRUE, man |-> <<13957, 689, 5689, 1293>>, exp |-> -52]],
     [x |-> [neg |-> FALSE, man |-> <<14043, 11702, 7021, 1755>>, exp |-> -54],   \* log2(3/7)
      y |-> [neg |-> TRUE, man |-> <<2802, 11297, 11957, 1251>>, exp |-> -52]],
     [x |-> [neg |-> FALSE, man |-> <<0, 0, 0, 1792>>, exp |-> -54],   \* log2(7/16)
      y |-> [neg |-> TRUE, man |-> <<14246, 1375, 4400, 1221>>, exp |-> -52]],
     [x |-> [neg |-> FALSE, man |-> <<1820, 12743, 7281, 1820>>, exp |-> -54],   \* log2(4/9)
      y |-> [neg |-> TRUE, man |-> <<15057, 7421, 52, 1198>>, exp |-> -52]],
     [x |-> [neg |-> FALSE, man |-> <<7447, 1489, 13405, 1861>>, exp |-> -54],   \* log2(5/11)
      y |-> [neg |-> TRUE, man |-> <<13217, 5221, 13166, 1164>>, exp |-> -52]],
     [x |-> [neg |-> FALSE, man |-> <<6302, 13863, 7561, 1890>>, exp |-> -54],   \* log2(6/13)
      y |-> [neg |-> TRUE, man |-> <<1789, 3600, 4074, 1142>>, exp |-> -52]],
     [x |-> [neg |-> FALSE, man |-> <<7646, 14199, 7645, 1911>>, exp |-> -54],   \* log2(7/15)
      y |-> [neg |-> TRUE, man |-> <<15345, 8107, 15147, 1125>>, exp |-> -52]],
     [x |-> [neg |-> FALSE, man |-> <<4369, 1092, 4369, 1092>>, exp |-> -53],   \* log2(8/15)
      y |-> [neg |-> TRUE, man |-> <<2199, 13464, 5110, 1857>>, exp |-> -53]],
     [x |-> [neg |-> FALSE, man |-> <<5041, 1260, 12603, 1102>>, exp |-> -53],   \* log2(7/13)
      y |-> [neg |-> TRUE, man |-> <<14361, 989, 617, 1829>>, exp |-> -53]],
     [x |-> [neg |-> FALSE, man |-> <<4468, 7447, 1489, 1117>>, exp |-> -53],   \* log2(6/11)
      y |-> [neg |-> TRUE, man |-> <<14904, 9063, 14954, 1790>>, exp |-> -53]],
     [x |-> [neg |-> FALSE, man |-> <<7282, 1820, 12743, 1137>>, exp |-> -53],   \* log2(5/9)
      y |-> [neg |-> TRUE, man |-> <<10204, 8801, 11430, 1736>>, exp |-> -53]],
     [x |-> [neg |-> FALSE, man |-> <<0, 0, 0, 1152>>, exp |-> -53],   \* log2(9/16)
      y |-> [neg |-> TRUE, man |-> <<2654, 1540, 16279, 1699>>, exp |-> -53]],
     [x |-> [neg |-> FALSE, man |-> <<9362, 2340, 4681, 1170>>, exp |-> -53],   \* log2(4/7)
      y |-> [neg |-> TRUE, man |-> <<4276, 13632, 7583, 1653>>, exp |-> -53]],
     [x |-> [neg |-> FALSE, man |-> <<10923, 10922, 10922, 1194>>, exp |-> -53],   \* log2(7/12)
      y |-> [neg |-> TRUE, man |-> <<10781, 10173, 8852, 1592>>, exp |-> -53]],
     [x |-> [neg |-> FALSE, man |-> <<13107, 3276, 13107, 1228>>, exp |-> -53],   \* log2(3/5)
      y |-> [neg |-> TRUE, man |-> <<4853, 15004, 5005, 1509>>, exp |-> -53]],
     [x |-> [neg |-> FALSE, man |-> <<15124, 3780, 5041, 1260>>, exp |-> -53],   \* log2(8/13)
      y |-> [neg |-> TRUE, man |-> <<2251, 14622, 8200, 1434>>, exp |-> -53]],
     [x |-> [neg |-> FALSE, man |-> <<0, 0, 0, 1280>>, exp |-> -53],   \* log2(5/8)
      y |-> [neg |-> TRUE, man |-> <<12859, 10341, 11325, 1388>>, exp |-> -53]],
     [x |-> [neg |-> FALSE, man |-> <<13405, 5957, 4468, 1303>>, exp |-> -53],   \* log2(7/11)
      y |-> [neg |-> TRUE, man |-> <<9300, 2853, 7423, 1335>>, exp |-> -53]],
     [x |-> [neg |-> FALSE, man |-> <<2341, 4681, 9362, 1316>>, exp |-> -53],   \* log2(9/14)
      y |-> [neg |-> TRUE, man |-> <<6929, 15172, 7478, 1305>>, exp |-> -53]],
     [x |-> [neg |-> FALSE, man |-> <<5461, 5461, 5461, 1365>>, exp |-> -53],   \* log2(2/3)
      y |-> [neg |-> TRUE, man |-> <<15058, 7421, 52, 1198>>, exp |-> -53]],
     [x |-> [neg |-> FALSE, man |-> <<0, 0, 0, 1408>>, exp |-> -53],   \* log2(11/16)
      y |-> [neg |-> TRUE, man |-> <<2809, 16282, 1376, 1107>>, exp |-> -53]],
     [x |-> [neg |-> FALSE, man |-> <<8822, 6301, 13863, 1417>>, exp |-> -53],   \* log2(9/13)
      y |-> [neg |-> TRUE, man |-> <<4906, 16162, 8095, 1086>>, exp |-> -53]],
     [x |-> [neg |-> FALSE, man |-> <<9830, 6553, 9830, 1433>>, exp |-> -53],   \* log2(7/10)
      y |-> [neg |-> TRUE, man |-> <<15635, 8793, 13858, 1053>>, exp |-> -53]],
     [x |-> [neg |-> FALSE, man |-> <<11703, 7021, 14043, 1462>>, exp |-> -53],   \* log2(5/7)
      y |-> [neg |-> TRUE, man |-> <<1499, 15180, 5050, 1988>>, exp |-> -54]],
     [x |-> [neg |-> FALSE, man |-> <<5958, 4468, 7447, 1489>>, exp |-> -53],   \* log2(8/11)
      y |-> [neg |-> TRUE, man |-> <<10766, 203, 13630, 1881>>, exp |-> -54]],
     [x |-> [neg |-> FALSE, man |-> <<14199, 7645, 14199, 1501>>, exp |-> -53],   \* log2(11/15)
      y |-> [neg |-> TRUE, man |-> <<10016, 10340, 12975, 1832>>, exp |-> -54]],
     [x |-> [neg |-> FALSE, man |-> <<0, 0, 0, 1536>>, exp |-> -53],   \* log2(3/4)
      y |-> [neg |-> TRUE, man |-> <<2654, 1540, 16279, 1699>>, exp |-> -54]],
     [x |-> [neg |-> FALSE, man |-> <<2521, 8822, 6301, 1575>>, exp |-> -53],   \* log2(10/13)
      y |-> [neg |-> TRUE, man |-> <<13835, 775, 6285, 1550>>, exp |-> -54]],
     [x |-> [neg |-> FALSE, man |-> <<3641, 9102, 14563, 1592>>, exp |-> -53],   \* log2(7/9)
      y |-> [neg |-> TRUE, man |-> <<2525, 2423, 1426, 1485>>, exp |-> -54]],
     [x |-> [neg |-> FALSE, man |-> <<4681, 9362, 2340, 1609>>, exp |-> -53],   \* log2(11/14)
      y |-> [neg |-> TRUE, man |-> <<14168, 10676, 1537, 1425>>, exp |-> -54]],
     [x |-> [neg |-> FALSE, man |-> <<6554, 9830, 6553, 1638>>, exp |-> -53],   \* log2(4/5)
      y |-> [neg |-> TRUE, man |-> <<7050, 12084, 10116, 1318>>, exp |-> -54]],
     [x |-> [neg |-> FALSE, man |-> <<0, 0, 0, 1664>>, exp |-> -53],   \* log2(13/16)
      y |-> [neg |-> TRUE, man |-> <<11880, 3523, 16366, 1226>>, exp |-> -54]],
     [x |-> [neg |-> FALSE, man |-> <<14895, 2978, 10426, 1675>>, exp |-> -53],   \* log2(9/11)
      y |-> [neg |-> TRUE, man |-> <<16074, 3283, 13420, 1185>>, exp |-> -54]],
     [x |-> [neg |-> FALSE, man |-> <<10923, 10922, 10922, 1706>>, exp |-> -53],   \* log2(5/6)
      y |-> [neg |-> TRUE, man |-> <<6678, 2759, 6372, 1077>>, exp |-> -54]],
     [x |-> [neg |-> FALSE, man |-> <<12603, 11342, 15123, 1732>>, exp |-> -53],   \* log2(11/13)
      y |-> [neg |-> TRUE, man |-> <<3858, 8929, 5543, 1974>>, exp |-> -55]],
     [x |-> [neg |-> FALSE, man |-> <<14043, 11702, 7021, 1755>>, exp |-> -53],   \* log2(6/7)
      y |-> [neg |-> TRUE, man |-> <<6029, 8457, 13741, 1821>>, exp |-> -55]],
     [x |-> [neg |-> FALSE, man |-> <<15292, 12014, 15291, 1774>>, exp |-> -53],   \* log2(13/15)
      y |-> [neg |-> TRUE, man |-> <<16169, 11751, 4023, 1691>>, exp |-> -55]],
     [x |-> [neg |-> FALSE, man |-> <<0, 0, 0, 1792>>, exp |-> -53],   \* log2(7/8)
      y |-> [neg |-> TRUE, man |-> <<15666, 11006, 2432, 1578>>, exp |-> -55]],
     [x |-> [neg |-> FALSE, man |-> <<1820, 12743, 7281, 1820>>, exp |-> -53],   \* log2(8/9)
      y |-> [neg |-> TRUE, man |-> <<5771, 10223, 419, 1392>>, exp |-> -55]],
     [x |-> [neg |-> FALSE, man |-> <<3277, 13107, 3276, 1843>>, exp |-> -53],   \* log2(9/10)
      y |-> [neg |-> TRUE, man |-> <<8333, 13945, 3429, 1245>>, exp |-> -55]],
     [x |-> [neg |-> FALSE, man |-> <<7447, 1489, 13405, 1861>>, exp |-> -53],   \* log2(10/11)
      y |-> [neg |-> TRUE, man |-> <<7434, 9006, 7026, 1126>>, exp |-> -55]],
     [x |-> [neg |-> FALSE, man |-> <<5461, 5461, 5461, 1877>>, exp |-> -53],   \* log2(11/12)
      y |-> [neg |-> TRUE, man |-> <<5928, 12896, 5717, 1028>>, exp |-> -55]],
     [x |-> [neg |-> FALSE, man |-> <<6302, 13863, 7561, 1890>>, exp |-> -53],   \* log2(12/13)
      y |-> [neg |-> TRUE, man |-> <<12241, 8449, 16035, 1891>>, exp |-> -56]],
     [x |-> [neg |-> FALSE, man |-> <<7022, 14043, 11702, 1901>>, exp |-> -53],   \* log2(13/14)
      y |-> [neg |-> TRUE, man |-> <<16185, 8464, 11447, 1751>>, exp |-> -56]],
     [x |-> [neg |-> FALSE, man |-> <<7646, 14199, 7645, 1911>>, exp |-> -53],   \* log2(14/15)
      y |-> [neg |-> TRUE, man |-> <<16151, 15038, 12983, 1630>>, exp |-> -56]],
     [x |-> [neg |-> FALSE, man |-> <<0, 0, 0, 1920>>, exp |-> -53],   \* log2(15/16)
      y |-> [neg |-> TRUE, man |-> <<15180, 6974, 8265, 1525>>, exp |-> -56]],
     [x |-> [neg |-> FALSE, man |-> <<0, 0, 0, 1536>>, exp |-> -51],   \* log2(3)
      y |-> [neg |-> FALSE, man |-> <<15720, 3710, 26, 1623>>, exp |-> -52]],
     [x |-> [neg |-> FALSE, man |-> <<0, 0, 0, 1280>>, exp |-> -50],   \* log2(5)
      y |-> [neg |-> FALSE, man |-> <<9073, 9702, 13552, 1188>>, exp |-> -51]],
     [x |-> [neg |-> FALSE, man |-> <<0, 0, 0, 1536>>, exp |-> -50],   \* log2(6)
      y |-> [neg |-> FALSE, man |-> <<7860, 1855, 8205, 1323>>, exp |-> -51]],
     [x |-> [neg |-> FALSE, man |-> <<0, 0, 0, 1792>>, exp |-> -50],   \* log2(7)
      y |-> [neg |-> FALSE, man |-> <<1069, 15696, 5991, 1437>>, exp |-> -51]],
     [x |-> [neg |-> FALSE, man |-> <<0, 0, 0, 1152>>, exp |-> -49],   \* log2(9)
      y |-> [neg |-> FALSE, man |-> <<15720, 3710, 26, 1623>>, exp |-> -51]],
     [x |-> [neg |-> FALSE, man |-> <<0, 0, 0, 1280>>, exp |-> -49],   \* log2(10)
      y |-> [neg |-> FALSE, man |-> <<9073, 9702, 13552, 1700>>, exp |-> -51]],
     [x |-> [neg |-> FALSE, man |-> <<0, 0, 0, 1408>>, exp |-> -49],   \* log2(11)
      y |-> [neg |-> FALSE, man |-> <<7490, 12313, 3751, 1771>>, exp |-> -51]],
     [x |-> [neg |-> FALSE, man |-> <<0, 0, 0, 1536>>, exp |-> -49],   \* log2(12)
      y |-> [neg |-> FALSE, man |-> <<7860, 1855, 8205, 1835>>, exp |-> -51]],
     [x |-> [neg |-> FALSE, man |-> <<0, 0, 0, 1664>>, exp |-> -49],   \* log2(13)
      y |-> [neg |-> FALSE, man |-> <<8755, 3655, 10242, 1894>>, exp |-> -51]],
     [x |-> [neg |-> FALSE, man |-> <<0, 0, 0, 1792>>, exp |-> -49],   \* log2(14)
      y |-> [neg |-> FALSE, man |-> <<1069, 15696, 5991, 1949>>, exp |-> -51]],
     [x |-> [neg |-> FALSE, man |-> <<0, 0, 0, 1920>>, exp |-> -49],   \* log2(15)
      y |-> [neg |-> FALSE, man |-> <<550, 11558, 5373, 2000>>, exp |-> -51]]}

IsPowerOfTwo(x) == x.man = BShl(<<1>>, MantBits - 1)

Log2(x) ==
    IF IsPowerOfTwo(x) THEN FromInt(x.exp + MantBits - 1)
    ELSE (CHOOSE r \in Log2Table : r.x = x).y

(***************************************************************************)
(* compute_entropy, max_entropy, entropy_to_color                          *)
(***************************************************************************)
\* a count that is set to 1 instead of incremented: every byte its own entry
FreqAfter_NoMerge(block, i) == [j \in 1..i |-> <<block[j], 1>>]

\* freq after the first i bytes of block: <<byte, count>> pairs in the order
\* the bytes were first seen (a dict keeps insertion order)
RECURSIVE FreqAfter(_, _)
FreqAfter(block, i) ==
    IF i = 0 THEN <<>>
    ELSE LET f == FreqAfter(block, i - 1)
             b == block[i]
         IN  IF \E j \in DOMAIN f : f[j][1] = b
             THEN [j \in DOMAIN f |-> IF f[j][1] = b THEN <<b, f[j][2] + 1>> ELSE f[j]]
             ELSE Append(f, <<b, 1>>)

\* ent after the first j entries of freq.values()
RECURSIVE EntropySum(_, _, _)
EntropySum(freq, n, j) ==
    IF j = 0 THEN FZero
    ELSE LET p == FDiv(FromInt(freq[j][2]), FromInt(n))
         IN  FSub(EntropySum(freq, n, j - 1), FMul(p, Log2(p)))

compute_entropy(block) ==
    IF block = <<>> THEN FZero
    ELSE LET freq == FreqAfter(block, Len(block))
         IN  EntropySum(freq, Len(block), Len(freq))

max_entropy(n) ==
    IF n = 0 THEN FZero
    ELSE IF n < 256 THEN Log2(FromInt(n)) ELSE FromInt(8)

\* Python's min and max return their first argument unless the second is
\* strictly smaller (larger)
PyMin(a, b) == IF FLt(b, a) THEN b ELSE a
PyMax(a, b) == IF FLt(a, b) THEN b ELSE a

\* the floats 0.25, 0.5, 0.75 and 1.0, which are exact
FQuarter      == [neg |-> FALSE, man |-> <<0, 0, 0, 1024>>, exp |-> -54]
FHalf         == [neg |-> FALSE, man |-> <<0, 0, 0, 1024>>, exp |-> -53]
FThreeQuarter == [neg |-> FALSE, man |-> <<0, 0, 0, 1536>>, exp |-> -53]
FOne          == [neg |-> FALSE, man |-> <<0, 0, 0, 1024>>, exp |-> -52]

anchors ==
    << <<FZero,         <<0, 0, 255>> >>,
       <<FQuarter,      <<0, 255, 255>> >>,
       <<FHalf,         <<0, 255, 0>> >>,
       <<FThreeQuarter, <<255, 255, 0>> >>,
       <<FOne,          <<255, 0, 0>> >> >>

Clamp_Missing(norm) == norm

Clamp(norm) == PyMax(FZero, PyMin(FOne, norm))

\* the interpolation between anchors[i] and anchors[i + 1]
Interpolate(i, norm) ==
    LET x0   == anchors[i][1]
        col0 == anchors[i][2]
        x1   == anchors[i + 1][1]
        col1 == anchors[i + 1][2]
        t    == FDiv(FSub(norm, x0), FSub(x1, x0))
        ch(k) == FTrunc(FAdd(FromInt(col0[k]), FMul(t, FromInt(col1[k] - col0[k]))))
    IN  <<ch(1), ch(2), ch(3)>>

InSegment(i, norm) == FLe(anchors[i][1], norm) /\ FLe(norm, anchors[i + 1][1])

entropy_to_color(norm) ==
    LET c    == Clamp(norm)
        hits == {i \in 1..(Len(anchors) - 1) : InSegment(i, c)}
    IN  IF hits = {} THEN anchors[Len(anchors)][2]
        ELSE Interpolate(CHOOSE i \in hits : \A j \in hits : i <= j, c)

(***************************************************************************)
(* Bounds of the model and constants of the program                        *)
(***************************************************************************)
MaxLen == 11          \* the longest short input file, in bytes
MaxAlpha == 3         \* short files over 1..MaxAlpha byte values, or all distinct
MaxBs == 3            \* block sizes 1..MaxBs, beside the default
MaxOver == 1          \* long inputs: canvas_height + 1 .. canvas_height + MaxOver
MaxBlocks == 12       \* direct calls of create_image: up to MaxBlocks colours
Grain == 15           \* direct calls of entropy_to_color: multiples of 1/(4*Grain)

DefaultBlockSize == 16
canvas_width == 400
canvas_height == 800

None == "None"

(***************************************************************************)
(* The program's state                                                     *)
(***************************************************************************)
VARIABLES
    pc,               \* the statement to execute next
    readable,         \* whether open(args.filename, "rb") succeeds
    data,             \* the file's bytes
    bs,               \* args.block_size
    args_image,       \* args.image: None or a file name
    Image,            \* the module global: "PIL.Image", or None without Pillow
    blocks,           \* main's list of blocks
    bi,               \* how many blocks the for loop of main has processed
    ent, max_ent, norm, col,      \* the loop body's locals
    color_list,
    offset_counter,
    stdout,           \* the lines written so far
    exit_status,      \* None while running, then the process's exit status, "0" or "1"
    exception,        \* None, or the exception being raised
    colors, pixel_size,           \* create_image's parameters
    n, vertical_square_size, max_square_size, best_cols, best_rows,
    cols,             \* the loop variable of the grid search
    left_margin, top_margin,
    img,              \* NoImage, or the canvas: the rectangles drawn on it, in order
    di,               \* how many colours the drawing loop has processed
    saved             \* whether the image file was written

inputVars == <<readable, data, bs, args_image, Image>>
mainVars  == <<blocks, bi, ent, max_ent, norm, col, color_list, offset_counter>>
callVars  == <<colors, pixel_size>>
geomVars  == <<n, vertical_square_size, max_square_size, best_cols, best_rows>>
drawVars  == <<left_margin, top_margin, img, di, saved>>
vars == <<pc, inputVars, mainVars, stdout, exit_status, exception,
          callVars, geomVars, cols, drawVars>>

(***************************************************************************)
(* main                                                                    *)
(***************************************************************************)
\* range() with the stop value included
PyRange_StopIncluded(start, stop, step) ==
    IF step > 0
    THEN LET S == {i \in start..stop : (i - start) % step = 0}
         IN  [k \in 1..Cardinality(S) |-> start + (k - 1) * step]
    ELSE LET S == {i \in stop..start : (start - i) % (-step) = 0}
         IN  [k \in 1..Cardinality(S) |-> start + (k - 1) * step]

\* range(start, stop, step) for step # 0, as a sequence
PyRange(start, stop, step) ==
    IF step > 0
    THEN LET S == {i \in start..(stop - 1) : (i - start) % step = 0}
         IN  [k \in 1..Cardinality(S) |-> start + (k - 1) * step]
    ELSE LET S == {i \in (stop + 1)..start : (start - i) % (-step) = 0}
         IN  [k \in 1..Cardinality(S) |-> start + (k - 1) * step]

\* s[i:j] for 0 <= i and 0 <= j
Slice(s, i, j) == SubSeq(s, i + 1, IF j < Len(s) THEN j ELSE Len(s))

\* [data[i:i + bs] for i in range(0, len(data), bs)]
SplitBlocks(d, b) ==
    LET starts == PyRange(0, Len(d), b)
    IN  [k \in 1..Len(starts) |-> Slice(d, starts[k], starts[k] + b)]

\* the header's cell for one column index: the index and the blanks after it
HeaderCell(count) ==
    [index |-> count, spacing |-> IF count < 16 THEN 2 ELSE IF count < 256 THEN 1 ELSE 0]

HeaderLine(b) ==
    [kind |-> "header", cells |-> [c \in 1..(IF b > 0 THEN b ELSE 0) |-> HeaderCell(c - 1)]]

\* norm = ent / max_ent if max_ent > 0 else 0.0
Normalize(e, m) == IF FLt(FZero, m) THEN FDiv(e, m) ELSE FZero

BlockLine(block, c, offset) ==
    [kind |-> "block", hex |-> block, background |-> c, offset |-> offset]

BlankLine == [kind |-> "blank"]

\* lines 169-174
OpenFile ==
    /\ pc = "open"
    /\ IF readable
       THEN /\ pc' = "split"
            /\ UNCHANGED <<stdout, exit_status>>
       ELSE /\ stdout' = Append(stdout, [kind |-> "error", text |-> "Error opening file:"])
            /\ exit_status' = "1"
            /\ pc' = "exit"
    /\ UNCHANGED <<inputVars, mainVars, exception, callVars, geomVars, cols, drawVars>>

\* lines 176-177; range() raises ValueError for a step of zero
Split ==
    /\ pc = "split"
    /\ IF bs = 0
       THEN /\ exception' = "ValueError"
            /\ pc' = "raised_in_main"
            /\ UNCHANGED blocks
       ELSE /\ blocks' = SplitBlocks(data, bs)
            /\ pc' = "header"
            /\ UNCHANGED exception
    /\ UNCHANGED <<inputVars, bi, ent, max_ent, norm, col, color_list, offset_counter,
                   stdout, exit_status, callVars, geomVars, cols, drawVars>>

\* lines 180-188
PrintHeader ==
    /\ pc = "header"
    /\ stdout' = Append(stdout, HeaderLine(bs))
    /\ color_list' = <<>>
    /\ offset_counter' = 0
    /\ bi' = 0
    /\ pc' = "loop"
    /\ UNCHANGED <<inputVars, blocks, ent, max_ent, norm, col, exit_status, exception,
                   callVars, geomVars, cols, drawVars>>

\* lines 190-200: one iteration of the loop over blocks
ProcessBlock ==
    /\ pc = "loop"
    /\ bi < Len(blocks)
    /\ LET block == blocks[bi + 1]
           e     == compute_entropy(block)
           m     == max_entropy(Len(block))
           nm    == Normalize(e, m)
           c     == entropy_to_color(nm)
       IN  /\ ent' = e
           /\ max_ent' = m
           /\ norm' = nm
           /\ col' = c
           /\ color_list' = Append(color_list, c)
           /\ stdout' = Append(stdout, BlockLine(block, c, offset_counter))
    /\ offset_counter' = offset_counter + bs
    /\ bi' = bi + 1
    /\ UNCHANGED <<pc, inputVars, blocks, exit_status, exception,
                   callVars, geomVars, cols, drawVars>>

\* lines 201-205: the trailing blank line, then the call of create_image
FinishText ==
    /\ pc = "loop"
    /\ bi = Len(blocks)
    /\ stdout' = Append(stdout, BlankLine)
    /\ IF args_image # None
       THEN /\ colors' = color_list
            /\ pixel_size' = 1
            /\ pc' = "create_image"
            /\ UNCHANGED exit_status
       ELSE /\ pc' = "exit"
            /\ exit_status' = "0"
            /\ UNCHANGED callVars
    /\ UNCHANGED <<inputVars, mainVars, exception, geomVars, cols, drawVars>>

\* create_image has returned to main, which ends
MainReturn ==
    /\ pc = "returned"
    /\ pc' = "exit"
    /\ exit_status' = "0"
    /\ UNCHANGED <<inputVars, mainVars, stdout, exception, callVars, geomVars, cols, drawVars>>

\* an exception nobody catches ends the process with a traceback and status 1
Uncaught ==
    /\ pc \in {"raised", "raised_in_main"}
    /\ pc' = "exit"
    /\ exit_status' = "1"
    /\ UNCHANGED <<inputVars, mainVars, stdout, exception, callVars, geomVars, cols, drawVars>>

(***************************************************************************)
(* create_image                                                            *)
(***************************************************************************)
\* int(min(canvas_width, canvas_height / n)), for n # 0
VerticalSquareSize(k) ==
    FTrunc(PyMin(FromInt(canvas_width), FDiv(FromInt(canvas_height), FromInt(k))))

\* n // cols instead of math.ceil(n / cols)
CeilRows_Floor(k, c) == FTrunc(FDiv(FromInt(k), FromInt(c)))

\* math.ceil(n / cols)
CeilRows(k, c) == FCeil(FDiv(FromInt(k), FromInt(c)))

\* the cell sized by the width alone
SquareSize_WidthOnly(c, r) == FTrunc(FDiv(FromInt(canvas_width), FromInt(c)))

\* int(min(canvas_width / cols, canvas_height / rows))
SquareSize(c, r) ==
    FTrunc(PyMin(FDiv(FromInt(canvas_width), FromInt(c)),
                 FDiv(FromInt(canvas_height), FromInt(r))))

\* >= instead of >: the last of several equal candidates wins
Improves_OrEqual(square_size, best) == square_size >= best

\* the test that lets a candidate replace the best one so far
Improves(square_size, best) == square_size > best

\* the test for the single-column layout
VerticalAccepted(size, minimum) == size >= minimum

Margin(extent, count, size) == (extent - count * size) \div 2

\* row and column exchanged
Rectangle_Swapped(i, c, size, left, top, fill) ==
    LET row       == i % c
        col_index == i \div c
        x         == left + col_index * size
        y         == top + row * size
    IN  [x0 |-> x, y0 |-> y, x1 |-> x + size - 1, y1 |-> y + size - 1, fill |-> fill]

\* the rectangle drawn for colours[i] (i counts from 0)
Rectangle(i, c, size, left, top, fill) ==
    LET row       == i \div c
        col_index == i % c
        x         == left + col_index * size
        y         == top + row * size
    IN  [x0 |-> x, y0 |-> y, x1 |-> x + size - 1, y1 |-> y + size - 1, fill |-> fill]

\* lines 103-122: without Pillow a notice and nothing else; canvas_height / n
\* raises ZeroDivisionError for an empty list
EnterCreateImage ==
    /\ pc = "create_image"
    /\ IF Image = None
       THEN /\ stdout' = Append(stdout, [kind |-> "notice", text |-> "Pillow is not installed."])
            /\ pc' = "returned"
            /\ UNCHANGED <<exception, geomVars, cols>>
       ELSE /\ n' = Len(colors)
            /\ UNCHANGED stdout
            /\ IF Len(colors) = 0
               THEN /\ exception' = "ZeroDivisionError"
                    /\ pc' = "raised"
                    /\ UNCHANGED <<vertical_square_size, max_square_size, best_cols,
                                   best_rows, cols>>
               ELSE /\ vertical_square_size' = VerticalSquareSize(Len(colors))
                    /\ UNCHANGED exception
                    /\ IF VerticalAccepted(vertical_square_size', pixel_size)
                       THEN /\ best_cols' = 1
                            /\ best_rows' = Len(colors)
                            /\ max_square_size' = vertical_square_size'
                            /\ pc' = "margins"
                            /\ UNCHANGED cols
                       ELSE /\ max_square_size' = 0
                            /\ best_cols' = 1
                            /\ best_rows' = 1
                            /\ cols' = 1
                            /\ pc' = "search"
    /\ UNCHANGED <<inputVars, mainVars, exit_status, callVars, drawVars>>

\* lines 123-129: one iteration of the search over cols in range(1, n + 1)
GridSearchStep ==
    /\ pc = "search"
    /\ cols <= n
    /\ LET rows        == CeilRows(n, cols)
           square_size == SquareSize(cols, rows)
       IN  IF Improves(square_size, max_square_size)
           THEN /\ max_square_size' = square_size
                /\ best_cols' = cols
                /\ best_rows' = rows
           ELSE UNCHANGED <<max_square_size, best_cols, best_rows>>
    /\ cols' = cols + 1
    /\ pc' = IF cols = n THEN "margins" ELSE "search"
    /\ UNCHANGED <<inputVars, mainVars, stdout, exit_status, exception, callVars,
                   n, vertical_square_size, drawVars>>

\* before Image.new there is no canvas; after it a white one without rectangles
NoImage  == [exists |-> FALSE, rectangles |-> <<>>]
NewImage == [exists |-> TRUE, rectangles |-> <<>>]

\* draw.rectangle
Draw(image, rect) == [image EXCEPT !.rectangles = Append(@, rect)]

\* lines 131-138: the margins and the white canvas
ComputeMargins ==
    /\ pc = "margins"
    /\ left_margin' = Margin(canvas_width, best_cols, max_square_size)
    /\ top_margin' = Margin(canvas_height, best_rows, max_square_size)
    /\ img' = NewImage
    /\ di' = 0
    /\ pc' = "draw"
    /\ UNCHANGED <<inputVars, mainVars, stdout, exit_status, exception, callVars,
                   geomVars, cols, saved>>

\* lines 141-146: one iteration of the drawing loop
DrawSquare ==
    /\ pc = "draw"
    /\ di < Len(colors)
    /\ img' = Draw(img, Rectangle(di, best_cols, max_square_size, left_margin,
                                    top_margin, colors[di + 1]))
    /\ di' = di + 1
    /\ UNCHANGED <<pc, inputVars, mainVars, stdout, exit_status, exception, callVars,
                   geomVars, cols, left_margin, top_margin, saved>>

\* img.save outside any try: its exception propagates
SaveImage_Uncaught ==
    /\ pc = "draw"
    /\ di = Len(colors)
    /\ \E ok \in BOOLEAN :
          /\ saved' = ok
          /\ IF ok
             THEN /\ stdout' = Append(stdout, [kind |-> "saved", text |-> "Image saved to"])
                  /\ pc' = "returned"
                  /\ UNCHANGED exception
             ELSE /\ exception' = "OSError"
                  /\ pc' = "raised"
                  /\ UNCHANGED stdout
    /\ UNCHANGED <<inputVars, mainVars, exit_status, callVars,
                   geomVars, cols, left_margin, top_margin, img, di>>

\* lines 148-152: img.save writes the file or raises, and the exception is caught
SaveImage ==
    /\ pc = "draw"
    /\ di = Len(colors)
    /\ \E ok \in BOOLEAN :
          /\ saved' = ok
          /\ stdout' = Append(stdout,
                IF ok THEN [kind |-> "saved", text |-> "Image saved to"]
                      ELSE [kind |-> "error", text |-> "Error saving image:"])
    /\ pc' = "returned"
    /\ UNCHANGED <<inputVars, mainVars, exit_status, exception, callVars,
                   geomVars, cols, left_margin, top_margin, img, di>>

(***************************************************************************)
(* Initial states and specifications                                       *)
(***************************************************************************)
\* the bytes 0, 1, ..., m-1, 0, 1, ... : len bytes over m values
Pattern(len, m) == [i \in 1..len |-> (i - 1) % m]

\* the runs of main: every short file with every block size, with and without
\* an image requested and with and without Pillow; and the long files (more
\* blocks than the canvas has pixel rows) with block size 1, an image
\* requested and Pillow installed
ShortFiles ==
    {Pattern(len, m) : len \in 0..MaxLen, m \in 1..MaxAlpha}
    \cup {Pattern(len, len) : len \in 1..MaxLen}

BlockSizes == (-1..MaxBs) \cup {DefaultBlockSize}

Runs ==
    {[data |-> f, bs |-> b, args_image |-> a, Image |-> lib] :
        f \in ShortFiles, b \in BlockSizes,
        a \in {None, "entropy.png"}, lib \in {None, "PIL.Image"}}
    \cup {[data |-> Pattern(canvas_height + k, 1), bs |-> 1,
           args_image |-> "entropy.png", Image |-> "PIL.Image"] : k \in 1..MaxOver}

Unbound ==
    /\ blocks = <<>> /\ bi = 0
    /\ ent = FZero /\ max_ent = FZero /\ norm = FZero /\ col = <<0, 0, 0>>
    /\ color_list = <<>> /\ offset_counter = 0
    /\ n = 0 /\ vertical_square_size = 0 /\ max_square_size = 0
    /\ best_cols = 0 /\ best_rows = 0 /\ cols = 0
    /\ left_margin = 0 /\ top_margin = 0 /\ img = NoImage /\ di = 0 /\ saved = FALSE
    /\ stdout = <<>> /\ exit_status = None /\ exception = None

\* the program is run: python3 EntropyVisualizer.py FILE [-b BS] [-i IMAGE]
Init ==
    /\ pc = "open"
    /\ readable \in BOOLEAN
    /\ \E r \in Runs :
          /\ data = r.data /\ bs = r.bs
          /\ args_image = r.args_image /\ Image = r.Image
    /\ colors = <<>> /\ pixel_size = 0
    /\ Unbound

Next ==
    \/ OpenFile \/ Split \/ PrintHeader \/ ProcessBlock \/ FinishText
    \/ EnterCreateImage \/ GridSearchStep \/ ComputeMargins \/ DrawSquare \/ SaveImage
    \/ MainReturn \/ Uncaught

Spec == Init /\ [][Next]_vars

\* create_image called on its own, with k colours and a minimum square size
SampleColors(k) == [i \in 1..k |-> anchors[((i - 1) % Len(anchors)) + 1][2]]

PixelSizes == {1, 100, canvas_width + 1}

CreateImageCalls ==
    {<<k, ps>> : k \in 0..MaxBlocks, ps \in PixelSizes}
    \cup {<<canvas_height + k, 1>> : k \in 0..MaxOver}

InitCreateImage ==
    /\ pc = "create_image"
    /\ \E call \in CreateImageCalls : colors = SampleColors(call[1]) /\ pixel_size = call[2]
    /\ Image \in {None, "PIL.Image"}
    /\ readable = TRUE /\ data = <<>> /\ bs = DefaultBlockSize /\ args_image = None
    /\ Unbound

NextCreateImage ==
    EnterCreateImage \/ GridSearchStep \/ ComputeMargins \/ DrawSquare \/ SaveImage

SpecCreateImage == InitCreateImage /\ [][NextCreateImage]_vars

\* entropy_to_color called on its own
NormInputs ==
    {FDiv(FromInt(k), FromInt(4 * Grain)) : k \in (-4 * Grain)..(8 * Grain)}

InitColor ==
    /\ pc = "entropy_to_color"
    /\ norm \in NormInputs
    /\ readable = TRUE /\ data = <<>> /\ bs = DefaultBlockSize /\ args_image = None
    /\ Image = None /\ colors = <<>> /\ pixel_size = 0
    /\ blocks = <<>> /\ bi = 0
    /\ ent = FZero /\ max_ent = FZero /\ col = <<0, 0, 0>>
    /\ color_list = <<>> /\ offset_counter = 0
    /\ n = 0 /\ vertical_square_size = 0 /\ max_square_size = 0
    /\ best_cols = 0 /\ best_rows = 0 /\ cols = 0
    /\ left_margin = 0 /\ top_margin = 0 /\ img = NoImage /\ di = 0 /\ saved = FALSE
    /\ stdout = <<>> /\ exit_status = None /\ exception = None

ApplyColor ==
    /\ pc = "entropy_to_color"
    /\ col' = entropy_to_color(norm)
    /\ pc' = "returned"
    /\ UNCHANGED <<inputVars, blocks, bi, ent, max_ent, norm, color_list, offset_counter,
                   stdout, exit_status, exception, callVars, geomVars, cols, drawVars>>

NextColor == ApplyColor

SpecColor == InitColor /\ [][NextColor]_vars

(***************************************************************************)
(* Properties                                                              *)
(***************************************************************************)
Blue == <<0, 0, 255>>
Red  == <<255, 0, 0>>

\* create_image has been called (main passes 1, a direct call a positive size)
Called == pixel_size # 0

\* create_image has chosen its geometry
GeometryChosen == pc \in {"margins", "draw"} \/ (pc = "returned" /\ img.exists)

\* which of the two layouts was chosen
SingleColumnBranch == vertical_square_size >= pixel_size

CeilDiv(a, b) == (a + b - 1) \div b

MinOf(a, b) == IF a < b THEN a ELSE b

\* floor(min(canvasWidth / c, canvasHeight / ceil(k / c))), in integers
CandidateSize(k, c) == MinOf(canvas_width \div c, canvas_height \div CeilDiv(k, c))

\* C4: for a positive block size the blocks are consecutive slices of the
\* input that together make up the input: there are ceil(L / bs) of them,
\* block j holds the bytes from offset (j - 1) * bs on, every block but the
\* last has bs bytes and the last has between 1 and bs bytes.
C4_BlocksPartitionInput ==
    (pc \notin {"open", "split", "raised_in_main"} /\ readable /\ bs > 0) =>
        LET L == Len(data)
            k == Len(blocks)
        IN  /\ k = CeilDiv(L, bs)
            /\ \A j \in 1..k :
                  /\ Len(blocks[j]) \in 1..bs
                  /\ j < k => Len(blocks[j]) = bs
                  /\ \A i \in 1..Len(blocks[j]) : blocks[j][i] = data[(j - 1) * bs + i]
            /\ k > 0 => (k - 1) * bs + Len(blocks[k]) = L
            /\ \A q \in 1..L : data[q] = blocks[((q - 1) \div bs) + 1][((q - 1) % bs) + 1]

\* an input cut into three or more blocks, the last one short
C4_Witness ==
    /\ pc = "header" /\ bs > 1
    /\ Len(blocks) >= 3
    /\ Len(blocks[Len(blocks)]) < bs

AllSame(block) == \A i \in DOMAIN block : block[i] = block[1]

\* C8: every block whose bytes are all identical gets the colour blue, and
\* when it is the block just processed its entropy and its normalized
\* entropy are 0.0; for a block of one byte max_entropy is 0.0, so that the
\* guard of the normalization, not a division, gives the 0.0.
C8_IdenticalBytesAreBlue ==
    /\ \A j \in 1..bi : AllSame(blocks[j]) => color_list[j] = Blue
    /\ (bi >= 1 /\ AllSame(blocks[bi])) =>
          /\ ent = FZero
          /\ norm = FZero
          /\ col = Blue
          /\ max_ent = max_entropy(Len(blocks[bi]))
          /\ Len(blocks[bi]) = 1 => ~FLt(FZero, max_ent)
          /\ Len(blocks[bi]) > 1 => FLt(FZero, max_ent)

\* a block of several identical bytes, then a block of one byte
C8_Witness ==
    /\ bi >= 2
    /\ Len(blocks[bi]) = 1
    /\ Len(blocks[bi - 1]) >= 2 /\ AllSame(blocks[bi - 1])
    /\ col = Blue

\* C6: the entropy of every block lies between 0 and max_entropy of its
\* length, and the normalized entropy between 0 and 1.
C6_EntropyWithinMax ==
    bi >= 1 =>
        /\ FLe(FZero, ent) /\ FLe(ent, max_ent)
        /\ FLe(FZero, norm) /\ FLe(norm, FOne)

\* C1: for an empty input (no block, so an empty colour list) with an image
\* requested, create_image returns without raising, and with Pillow leaves
\* a canvas on which nothing was drawn.
C1_EmptyListCompletes ==
    (Called /\ colors = <<>> /\ bs > 0 /\ pc \in {"raised", "returned"}) =>
        /\ pc = "returned"
        /\ exception = None
        /\ Image # None => img = NewImage

\* the text main writes: the header, a line per block, a blank line
ExpectedText ==
    <<HeaderLine(bs)>>
    \o [j \in 1..Len(blocks) |-> BlockLine(blocks[j], color_list[j], (j - 1) * bs)]
    \o <<BlankLine>>

\* the image stage has ended without an image: Pillow is missing, or the
\* canvas was drawn and could not be saved
ImageStageFailed ==
    /\ Called
    /\ pc \in {"returned", "exit"}
    /\ Image = None \/ (img.exists /\ ~saved)

\* C7: the text is complete before create_image starts and stays as it is;
\* when Pillow is missing or the save fails, one message follows the text,
\* no exception is left, and the process ends with status 0; without Pillow
\* no geometry is computed and nothing is drawn or saved.
C7_ImageFailureIsRecoverable ==
    /\ Called => /\ Len(stdout) >= Len(blocks) + 2
                 /\ SubSeq(stdout, 1, Len(blocks) + 2) = ExpectedText
    /\ ImageStageFailed =>
          /\ Len(stdout) = Len(blocks) + 3
          /\ stdout[Len(stdout)].kind = (IF Image = None THEN "notice" ELSE "error")
          /\ exception = None
          /\ pc = "exit" => exit_status = "0"
          /\ Image = None =>
                /\ img = NoImage /\ ~saved /\ di = 0
                /\ n = 0 /\ max_square_size = 0 /\ best_cols = 0 /\ best_rows = 0

\* the process has ended after a failed save of an image of several blocks
C7_Witness ==
    /\ pc = "exit" /\ ImageStageFailed
    /\ Image # None /\ Len(img.rectangles) >= 2
    /\ exit_status = "0"

\* a float less than 0 is pinned to 0, a float greater than 1 to 1
ClampedInput(x) == IF FLt(x, FZero) THEN FZero ELSE IF FLt(FOne, x) THEN FOne ELSE x

\* C5: entropy_to_color gives each anchor position its anchor colour, gives
\* an input outside [0, 1] the colour of the nearest bound (blue below 0,
\* red above 1), and at an anchor shared by two segments both segments'
\* interpolations give the anchor's colour.
C5_AnchorsAndClamp ==
    pc = "returned" =>
        /\ \A i \in 1..Len(anchors) : norm = anchors[i][1] => col = anchors[i][2]
        /\ FLt(norm, FZero) => col = Blue
        /\ FLt(FOne, norm) => col = Red
        /\ col = entropy_to_color(ClampedInput(norm))
        /\ \A i \in 2..(Len(anchors) - 1) :
              norm = anchors[i][1] =>
                  /\ Interpolate(i - 1, norm) = anchors[i][2]
                  /\ Interpolate(i, norm) = anchors[i][2]

\* the colour of the anchor 0.5, which ends one segment and starts the next
C5_Witness == pc = "returned" /\ norm = FHalf /\ col = <<0, 255, 0>>

\* the largest candidate cell size over cols = 1..k
MaxCandidate(k) ==
    CHOOSE m \in {CandidateSize(k, c) : c \in 1..k} :
        \A c \in 1..k : CandidateSize(k, c) <= m

\* C2 as claimed: for every n >= 1 no column count gives a larger cell than
\* the one selected.
C2_LargestCellAlways ==
    (GeometryChosen /\ n >= 1) =>
        \A c \in 1..n : CandidateSize(n, c) <= max_square_size

\* C2 as amended: when the grid search runs (the single-column cell is
\* smaller than the minimum cell size) the selected cell size is that of the
\* selected column count and no column count gives a larger one; otherwise
\* one column of n rows is selected, with cell size floor(min(W, H / n)).
C2_LargestCellInGridSearch ==
    (GeometryChosen /\ n >= 1) =>
        /\ vertical_square_size = MinOf(canvas_width, canvas_height \div n)
        /\ IF SingleColumnBranch
           THEN /\ best_cols = 1 /\ best_rows = n
                /\ max_square_size = vertical_square_size
           ELSE /\ best_cols \in 1..n
                /\ max_square_size = CandidateSize(n, best_cols)
                /\ \A c \in 1..n : CandidateSize(n, c) <= max_square_size

\* the grid search has selected more than one column
C2_Witness ==
    /\ pc = "margins" /\ ~SingleColumnBranch
    /\ best_cols > 1
    /\ max_square_size > CandidateSize(n, 1)

\* C3: for 0 < n <= canvasWidth * canvasHeight the selected geometry has
\* cols * rows >= n and cellSize >= 1, in both branches; for n = 1 it is one
\* column and one row.
C3_GeometryHoldsAllBlocks ==
    (GeometryChosen /\ 0 < n /\ n <= canvas_width * canvas_height) =>
        /\ best_cols * best_rows >= n
        /\ max_square_size >= 1
        /\ n = 1 => (best_cols = 1 /\ best_rows = 1)

\* the grid search has selected a grid with a partly empty last row
C3_Witness ==
    /\ pc = "margins" /\ ~SingleColumnBranch
    /\ best_cols > 1 /\ best_rows > 1
    /\ best_cols * best_rows > n

CellOf(k) == <<(k - 1) \div best_cols, (k - 1) % best_cols>>

\* C10: for 0 < n <= 400 * 800 the grid fits the canvas, the margins are not
\* negative, block i is drawn at row i div cols < rows and column
\* i mod cols < cols, its rectangle lies inside the canvas, and no two
\* blocks are drawn at the same place.
C10_SquaresInsideCanvas ==
    (pc \in {"draw", "returned"} /\ img.exists /\ 0 < n
        /\ n <= canvas_width * canvas_height) =>
        LET drawn == img.rectangles
        IN  /\ best_cols * max_square_size <= canvas_width
            /\ best_rows * max_square_size <= canvas_height
            /\ left_margin >= 0 /\ top_margin >= 0
            /\ Len(drawn) = di /\ di <= n
            /\ pc = "returned" => di = n
            /\ \A k \in 1..Len(drawn) :
                  /\ CellOf(k)[1] < best_rows /\ CellOf(k)[2] < best_cols
                  /\ drawn[k].x0 = left_margin + CellOf(k)[2] * max_square_size
                  /\ drawn[k].y0 = top_margin + CellOf(k)[1] * max_square_size
                  /\ drawn[k].x1 = drawn[k].x0 + max_square_size - 1
                  /\ drawn[k].y1 = drawn[k].y0 + max_square_size - 1
                  /\ 0 <= drawn[k].x0 /\ drawn[k].x0 <= drawn[k].x1
                  /\ drawn[k].x1 <= canvas_width - 1
                  /\ 0 <= drawn[k].y0 /\ drawn[k].y0 <= drawn[k].y1
                  /\ drawn[k].y1 <= canvas_height - 1
                  /\ drawn[k].fill = colors[k]
            /\ \A k \in 1..(Len(drawn) - 1) :
                  /\ CellOf(k) # CellOf(Len(drawn))
                  /\ <<drawn[k].x0, drawn[k].y0>>
                        # <<drawn[Len(drawn)].x0, drawn[Len(drawn)].y0>>

\* every block of a grid of several rows and columns has been drawn
C10_Witness ==
    /\ pc = "returned" /\ img.exists
    /\ best_cols > 1 /\ best_rows > 1
    /\ Len(img.rectangles) = n

====
